---- MODULE Spec2Model ----
(***************************************************************************)
(* Proportional stock allocation of haibun4.py: allocate_stock_recursive   *)
(* (initial pass, recursive leftover redistribution, final rounding).      *)
(*                                                                         *)
(* Numbers are exact rationals <<n, d>> in lowest terms with d > 0: the     *)
(* Python floats of the source are modelled by the real numbers they       *)
(* approximate, so every statement below is a statement about exact        *)
(* arithmetic (the source's results agree with it up to float rounding).   *)
(***************************************************************************)
EXTENDS Integers, Sequences, FiniteSets, TLC

(* ---------------- bounds of the explored input space ------------------- *)
MaxCust == 2
MaxWeight == 1
MaxDen == 4
MaxDemand == 4
MaxStock == 7
MaxBump == 2

(* ---------------- exact rational arithmetic ---------------------------- *)
Abs(x) == IF x < 0 THEN -x ELSE x

RECURSIVE GCD(_, _)
GCD(a, b) == IF b = 0 THEN a ELSE GCD(b, a % b)

Rat(n, d) ==
    LET s == IF d < 0 THEN -1 ELSE 1
        g == GCD(Abs(n), Abs(d))
    IN  <<(s * n) \div g, (s * d) \div g>>

Zero == <<0, 1>>
FromInt(i) == <<i, 1>>
Add(a, b) == Rat(a[1] * b[2] + b[1] * a[2], a[2] * b[2])
Sub(a, b) == Rat(a[1] * b[2] - b[1] * a[2], a[2] * b[2])
Mul(a, b) == Rat(a[1] * b[1], a[2] * b[2])
Div(a, b) == Rat(a[1] * b[2], a[2] * b[1])
Less(a, b) == a[1] * b[2] < b[1] * a[2]
Leq(a, b) == a[1] * b[2] <= b[1] * a[2]
IsPos(a) == a[1] > 0
Min(a, b) == IF Less(b, a) THEN b ELSE a

RECURSIVE SumTo(_, _)
SumTo(f, n) == IF n = 0 THEN Zero ELSE Add(SumTo(f, n - 1), f[n])
Sum(f) == SumTo(f, Len(f))

(* ---------------- state ------------------------------------------------ *)
(* customers            the list of records (ratio, demand, allocated)      *)
(* logic_stock          the stock to distribute                             *)
(* leftover             leftover / lf of the innermost active call          *)
(* allocated_this_round allocated_this_round of the last completed round    *)
(* depth                number of redistribute_recursive calls entered      *)
(* pc                   start, redistribute, rounding, done                 *)
(* outcome              how the call ended: none, returned                  *)
VARIABLES customers, logic_stock, leftover, allocated_this_round, depth, pc, outcome
vars == <<customers, logic_stock, leftover, allocated_this_round, depth, pc, outcome>>

Allocated(cs) == [i \in 1..Len(cs) |-> cs[i].allocated]
Demands(cs) == [i \in 1..Len(cs) |-> FromInt(cs[i].demand)]

(* remain = cust["demand"] - cust["allocated"] *)
Remain(c) == Sub(FromInt(c.demand), c.allocated)

(* ---------------- step 1: initial pass --------------------------------- *)
InitAllocMax(c, stock) ==
    LET a == Mul(c.ratio, FromInt(stock))
        b == FromInt(c.demand)
    IN  IF Less(a, b) THEN b ELSE a

InitAlloc(c, stock) == Min(Mul(c.ratio, FromInt(stock)), FromInt(c.demand))

InitialAllocation(cs, stock) ==
    [i \in 1..Len(cs) |-> [cs[i] EXCEPT !.allocated = InitAlloc(cs[i], stock)]]

InitialLeftover(cs, stock) == Sub(FromInt(stock), Sum(Allocated(cs)))

(* ---------------- step 2: one call of redistribute_recursive ----------- *)
RatioSumAll(cs) == Sum([i \in 1..Len(cs) |-> cs[i].ratio])

RatioSum(cs) ==
    Sum([i \in 1..Len(cs) |-> IF IsPos(Remain(cs[i])) THEN cs[i].ratio ELSE Zero])

PortionUnweighted(c, lf, ratio_sum) == Div(lf, ratio_sum)

Portion(c, lf, ratio_sum) == Mul(lf, Div(c.ratio, ratio_sum))

ActualUncapped(c, lf, ratio_sum) ==
    IF IsPos(Remain(c)) THEN Portion(c, lf, ratio_sum) ELSE Zero

Actual(c, lf, ratio_sum) ==
    IF IsPos(Remain(c)) THEN Min(Portion(c, lf, ratio_sum), Remain(c)) ELSE Zero

RoundAllocation(cs, lf) ==
    LET rs == RatioSum(cs)
    IN  [i \in 1..Len(cs) |->
            [cs[i] EXCEPT !.allocated = Add(cs[i].allocated, Actual(cs[i], lf, rs))]]

AllocatedThisRound(cs, lf) ==
    LET rs == RatioSum(cs)
    IN  Sum([i \in 1..Len(cs) |-> Actual(cs[i], lf, rs)])

RecursesOnNegative(lf, atr) == Less(lf, Zero) /\ IsPos(atr)

Recurses(lf, atr) == IsPos(lf) /\ IsPos(atr)

(* ---------------- step 4: rounding ------------------------------------- *)
PyRoundHalfUp(q) == (2 * q[1] + q[2]) \div (2 * q[2])

PyRound(q) ==
    LET fl == q[1] \div q[2]
        r == q[1] - fl * q[2]
    IN  IF 2 * r < q[2] THEN fl
        ELSE IF 2 * r > q[2] THEN fl + 1
        ELSE IF fl % 2 = 0 THEN fl ELSE fl + 1

RoundedAllocation(cs) ==
    [i \in 1..Len(cs) |-> [cs[i] EXCEPT !.allocated = FromInt(PyRound(cs[i].allocated))]]

(* ---------------- the caller's records --------------------------------- *)
Customer(r, d) == [ratio |-> r, demand |-> d, allocated |-> Zero]

InitWith(W, D, S) ==
    \E n \in 0..MaxCust :
    \E w \in [1..n -> W], den \in 1..MaxDen, d \in [1..n -> D], s \in S :
        /\ customers = [i \in 1..n |-> Customer(Rat(w[i], den), d[i])]
        /\ logic_stock = s
        /\ leftover = Zero
        /\ allocated_this_round = Zero
        /\ depth = 0
        /\ pc = "start"
        /\ outcome = "none"

Init == InitWith(0..MaxWeight, 0..MaxDemand, 0..MaxStock)

(* ---------------- actions ---------------------------------------------- *)
(* if lf <= 0: return lf *)
NoLeftover == ~IsPos(leftover)
(* if ratio_sum == 0: return lf *)
NoRatio == RatioSum(customers) = Zero

InitialPass ==
    /\ pc = "start"
    /\ customers' = InitialAllocation(customers, logic_stock)
    /\ leftover' = InitialLeftover(customers', logic_stock)
    /\ depth' = 1
    /\ pc' = "redistribute"
    /\ UNCHANGED <<logic_stock, allocated_this_round, outcome>>

ReturnNoLeftover ==
    /\ pc = "redistribute"
    /\ NoLeftover
    /\ pc' = "rounding"
    /\ UNCHANGED <<customers, logic_stock, leftover, allocated_this_round, depth, outcome>>

ReturnNoRatio ==
    /\ pc = "redistribute"
    /\ ~NoLeftover
    /\ NoRatio
    /\ pc' = "rounding"
    /\ UNCHANGED <<customers, logic_stock, leftover, allocated_this_round, depth, outcome>>

Redistribute ==
    /\ pc = "redistribute"
    /\ ~NoLeftover
    /\ ~NoRatio
    /\ customers' = RoundAllocation(customers, leftover)
    /\ allocated_this_round' = AllocatedThisRound(customers, leftover)
    /\ leftover' = Sub(leftover, allocated_this_round')
    /\ IF Recurses(leftover', allocated_this_round')
         THEN depth' = depth + 1 /\ pc' = "redistribute"
         ELSE depth' = depth /\ pc' = "rounding"
    /\ UNCHANGED <<logic_stock, outcome>>

Rounding ==
    /\ pc = "rounding"
    /\ customers' = RoundedAllocation(customers)
    /\ pc' = "done"
    /\ outcome' = "returned"
    /\ UNCHANGED <<logic_stock, leftover, allocated_this_round, depth>>

Next ==
    \/ InitialPass
    \/ ReturnNoLeftover
    \/ ReturnNoRatio
    \/ Redistribute
    \/ Rounding

(* ---------------- the whole call as a function -------------------------- *)
(* The list x itself; written so that TLC computes its elements once. *)
Fixed(x) == x \o <<>>

(* redistribute_recursive(customer_list, lf): the records at its return.   *)
RECURSIVE RedistributeRecursive(_, _)
RedistributeRecursive(cs, lf) ==
    IF ~IsPos(lf) THEN cs
    ELSE IF RatioSum(cs) = Zero THEN cs
    ELSE LET atr == AllocatedThisRound(cs, lf)
             cs2 == Fixed(RoundAllocation(cs, lf))
             lf2 == Sub(lf, atr)
         IN  IF Recurses(lf2, atr) THEN RedistributeRecursive(cs2, lf2) ELSE cs2

(* The records just before the rounding loop. *)
AllocateBeforeRounding(cs, stock) ==
    LET cs1 == Fixed(InitialAllocation(cs, stock))
    IN  RedistributeRecursive(cs1, InitialLeftover(cs1, stock))

RECURSIVE SumIntTo(_, _)
SumIntTo(f, n) == IF n = 0 THEN 0 ELSE SumIntTo(f, n - 1) + f[n]

(* main(): ratio = score / total_score when total_score > 0, else 0.       *)
(* The scores are given in whole units: the ratios depend only on their    *)
(* proportions.                                                            *)
CalcRatio(score) ==
    [i \in 1..Len(score) |->
        IF SumIntTo(score, Len(score)) > 0
          THEN Rat(score[i], SumIntTo(score, Len(score)))
          ELSE Zero]

(* main(): the records handed to allocate_stock_recursive. *)
InitFromScores ==
    \E n \in 0..MaxCust :
    \E w \in [1..n -> 0..MaxWeight], d \in [1..n -> 0..MaxDemand], s \in 0..MaxStock :
        /\ customers = [i \in 1..n |-> Customer(CalcRatio(w)[i], d[i])]
        /\ logic_stock = s
        /\ leftover = Zero
        /\ allocated_this_round = Zero
        /\ depth = 0
        /\ pc = "start"
        /\ outcome = "none"

(* ---------------- specifications ---------------------------------------- *)
(* Inputs that meet the preconditions (stock, ratios, demands >= 0). *)
Spec == Init /\ [][Next]_vars

(* Inputs as main() builds them: ratios normalized from scores. *)
SpecCaller == InitFromScores /\ [][Next]_vars

(* Any input the function accepts, negative numbers included. *)
InitUnchecked == InitWith(-1..MaxWeight, -1..MaxDemand, -1..MaxStock)
SpecUnchecked == InitUnchecked /\ [][Next]_vars

(* ---------------- vocabulary of the properties --------------------------- *)
N == Len(customers)
ValidInput ==
    /\ logic_stock >= 0
    /\ \A i \in 1..N : ~Less(customers[i].ratio, Zero) /\ customers[i].demand >= 0
Stock == FromInt(logic_stock)
TotalDemand == Sum(Demands(customers))
TotalAllocated == Sum(Allocated(customers))
PositiveRatioDemand ==
    Sum([i \in 1..N |->
            IF IsPos(customers[i].ratio) THEN FromInt(customers[i].demand) ELSE Zero])
UsedInitially == Sum(Allocated(InitialAllocation(customers, logic_stock)))
BeforeRounding == pc = "rounding"

(* ---------------- C1 ----------------------------------------------------- *)
(* C1 as stated: whenever total demand >= stock and some customer has a     *)
(* positive ratio, the allocations just before rounding sum to the stock.   *)
C1_Conservation ==
    (BeforeRounding /\ Leq(Stock, TotalDemand)
        /\ \E i \in 1..N : IsPos(customers[i].ratio))
    => TotalAllocated = Stock

(* C1 amended: whenever the demand of the customers with a positive ratio   *)
(* is >= stock, the allocations just before rounding sum to at least the    *)
(* stock, and to exactly the stock when the initial pass used no more than  *)
(* the stock.                                                               *)
C1_ConservationAmended ==
    (BeforeRounding /\ Leq(Stock, PositiveRatioDemand))
    => /\ Leq(Stock, TotalAllocated)
       /\ Leq(UsedInitially, Stock) => TotalAllocated = Stock

C1_Witness ==
    /\ BeforeRounding /\ depth >= 2
    /\ IsPos(Stock) /\ Leq(Stock, PositiveRatioDemand)
    /\ Less(UsedInitially, Stock)
    /\ TotalAllocated = Stock

(* ---------------- C2 ----------------------------------------------------- *)
(* C2: after the initial pass and after every redistribution round, every   *)
(* customer has 0 <= allocated <= demand.                                   *)
C2_Ceiling ==
    pc \in {"redistribute", "rounding"}
    => \A i \in 1..N :
          /\ Leq(Zero, customers[i].allocated)
          /\ Leq(customers[i].allocated, FromInt(customers[i].demand))

C2_Witness ==
    /\ pc = "redistribute" /\ depth >= 2
    /\ \E i, j \in 1..N :
          /\ customers[i].demand > 0 /\ Remain(customers[i]) = Zero
          /\ IsPos(customers[j].allocated) /\ IsPos(Remain(customers[j]))

(* ---------------- C3 ----------------------------------------------------- *)
(* C3 as stated: the allocations at completion, before rounding, sum to at  *)
(* most the stock, whatever the ratios sum to.                              *)
C3_NoOverAllocation == BeforeRounding => Leq(TotalAllocated, Stock)

(* ---------------- C4 ----------------------------------------------------- *)
(* A round entered with leftover > 0 lowers leftover, or changes no         *)
(* allocation and returns.                                                  *)
C4_RoundProgress ==
    (pc = "redistribute" /\ IsPos(leftover))
    => \/ Less(leftover', leftover)
       \/ Allocated(customers') = Allocated(customers) /\ pc' = "rounding"

(* A round followed by a further call brought a customer with unmet demand  *)
(* to allocated = demand.                                                   *)
C4_RoundSaturates ==
    (pc = "redistribute" /\ pc' = "redistribute")
    => \E i \in 1..N :
          IsPos(Remain(customers[i])) /\ Remain(customers'[i]) = Zero

(* Position of the call: start, the calls of redistribute_recursive in      *)
(* order, the rounding loop, the return.                                    *)
C4_Rank ==
    CASE pc = "start" -> 0
      [] pc = "redistribute" -> depth
      [] pc = "rounding" -> N + 2
      [] pc = "done" -> N + 3

(* The guard of some action holds. *)
C4_CanStep ==
    \/ pc = "start"
    \/ pc = "redistribute" /\ NoLeftover
    \/ pc = "redistribute" /\ ~NoLeftover /\ NoRatio
    \/ pc = "redistribute" /\ ~NoLeftover /\ ~NoRatio
    \/ pc = "rounding"

C5_InvalidInputRejected ==
    (pc = "done" /\ ~ValidInput)
    => /\ outcome = "InvalidInput"
       /\ \A i \in 1..N : customers[i].allocated = Zero

(* ---------------- C6 ----------------------------------------------------- *)
(* A call entered with leftover > 0 in which every customer with unmet      *)
(* demand has ratio 0 returns with allocations and leftover untouched.      *)
C6_LeftoverStays ==
    (pc = "redistribute" /\ IsPos(leftover)
        /\ \A i \in 1..N : IsPos(Remain(customers[i])) => customers[i].ratio = Zero)
    => customers' = customers /\ leftover' = leftover /\ pc' = "rounding"

(* C6: a customer whose ratio is 0 has allocated = 0 throughout, hence at   *)
(* completion; and when every customer with unmet demand has ratio 0 the    *)
(* remaining leftover stays unallocated.                                    *)
C6_ZeroRatioGetsNothing ==
    /\ [](\A i \in 1..N : customers[i].ratio = Zero => customers[i].allocated = Zero)
    /\ [][C6_LeftoverStays]_vars

C6_Witness ==
    /\ pc = "done" /\ depth >= 2 /\ IsPos(leftover)
    /\ \E i, j \in 1..N :
          /\ customers[i].ratio = Zero /\ customers[i].demand > 0
          /\ customers[i].allocated = Zero
          /\ IsPos(customers[j].allocated)

(* ---------------- C7 ----------------------------------------------------- *)
(* C7: with no customers the call returns the empty list; with stock 0, or  *)
(* with every ratio 0, it returns normally and every allocated is 0.        *)
C7_Degenerate ==
    (pc = "done" /\ (N = 0 \/ logic_stock = 0
                        \/ \A i \in 1..N : customers[i].ratio = Zero))
    => /\ outcome = "returned"
       /\ N = 0 => customers = <<>>
       /\ \A i \in 1..N : customers[i].allocated = Zero

C7_Witness ==
    /\ pc = "done" /\ logic_stock = 0
    /\ \E i \in 1..N : IsPos(customers[i].ratio) /\ customers[i].demand > 0

(* ---------------- C8 ----------------------------------------------------- *)
(* A common denominator of the ratios: Scale * ratio is a whole score. *)
RECURSIVE DenProduct(_)
DenProduct(n) == IF n = 0 THEN 1 ELSE DenProduct(n - 1) * customers[n].ratio[2]
Scale == DenProduct(N)

(* The raises t[1] / t[2] of one customer's score, relative to the total of *)
(* the scores, that are tried: a small one, the total itself, a large one.  *)
Bumps == {<<1, MaxBump>>, <<1, 1>>, <<MaxBump, 1>>}

(* Scores in the proportions of this request's ratios, customer k's raised *)
(* by t[1] / t[2] of the total.                                            *)
BumpedScore(k, t) ==
    [i \in 1..N |->
        (Scale * t[2] * customers[i].ratio[1]) \div customers[i].ratio[2]
            + (IF i = k THEN Scale * t[1] ELSE 0)]

(* Customer k's allocation, before rounding, in the request with the raised *)
(* score.                                                                   *)
SecondRun(k, t) ==
    LET ratio == Fixed(CalcRatio(Fixed(BumpedScore(k, t))))
        cs == Fixed([i \in 1..N |-> Customer(ratio[i], customers[i].demand)])
    IN  AllocateBeforeRounding(cs, logic_stock)[k].allocated

(* C8: raising one customer's score, the others' scores fixed and the       *)
(* ratios re-normalized, never lowers that customer's allocation before     *)
(* rounding.                                                                *)
C8_Monotonicity ==
    BeforeRounding
    => \A k \in 1..N : \A t \in Bumps :
          Leq(customers[k].allocated, SecondRun(k, t))

C8_Witness ==
    /\ BeforeRounding /\ IsPos(allocated_this_round) /\ N >= 2
    /\ \E k \in 1..N : \E t \in Bumps :
          /\ IsPos(customers[k].allocated)
          /\ Less(customers[k].allocated, SecondRun(k, t))

(* ---------------- C9 ----------------------------------------------------- *)
(* C9: when total demand <= stock and every ratio is positive, every        *)
(* customer ends, before rounding, with allocated = demand, no customer has *)
(* unmet demand and the leftover is stock - total demand.                   *)
C9_DemandSaturation ==
    (BeforeRounding /\ (\A i \in 1..N : IsPos(customers[i].ratio))
        /\ Leq(TotalDemand, Stock))
    => /\ \A i \in 1..N : customers[i].allocated = FromInt(customers[i].demand)
       /\ RatioSum(customers) = Zero
       /\ leftover = Sub(Stock, TotalDemand)

C9_Witness ==
    /\ BeforeRounding /\ N >= 2 /\ depth = 3
    /\ Less(TotalDemand, Stock)
    /\ \A i \in 1..N : IsPos(customers[i].ratio)

(* ---------------- C10 ---------------------------------------------------- *)
(* k is q rounded to the nearest integer, a tie going to the even one. *)
IsHalfEven(q, k) ==
    LET twice == Abs(2 * q[1] - 2 * k * q[2])
    IN  /\ twice <= q[2]
        /\ twice = q[2] => k % 2 = 0

(* The rounding loop replaces each allocated by its half-to-even rounding,  *)
(* an integer between 0 and the demand.                                     *)
C10_RoundingStep ==
    pc = "rounding"
    => \A i \in 1..N :
          /\ customers'[i].allocated[2] = 1
          /\ IsHalfEven(customers[i].allocated, customers'[i].allocated[1])
          /\ customers'[i].allocated[1] \in 0..customers[i].demand

(* C10: each returned allocated is an integer, the half-to-even rounding of *)
(* the value reached before rounding, with 0 <= allocated <= demand.        *)
C10_RoundedWithinDemand ==
    /\ [][C10_RoundingStep]_vars
    /\ [](pc = "done" => \A i \in 1..N :
                            /\ customers[i].allocated[2] = 1
                            /\ customers[i].allocated[1] \in 0..customers[i].demand)

C10_Witness ==
    /\ pc = "done"
    /\ TotalAllocated # Sub(Stock, leftover)
    /\ \E i \in 1..N : customers[i].demand > 0 /\ Remain(customers[i]) = Zero

====
